---- MODULE Spec2Model ----
(***************************************************************************)
(* Campaign eligibility and redemption engine of the mekankolik backend.   *)
(*                                                                         *)
(* Every request handler runs in its own storage session (get_db), so a    *)
(* handler is a process whose reads see the committed rows plus its own    *)
(* pending rows, and whose writes become visible to the others at commit.  *)
(* A handler is cut into steps at the storage statements whose order       *)
(* against other sessions matters (a query, a flush, a commit).            *)
(***************************************************************************)
EXTENDS Integers, Sequences, FiniteSets, TLC

\* ---- bounds of the model ------------------------------------------------
NumProcs == 2          \* concurrently running request handlers
MaxOps == 3            \* handler invocations in one behaviour
MaxTime == 2           \* the clock runs 0..MaxTime
ScenarioOps == 4       \* invocations of the scenario: a sweep, three comments

\* ---- domains of the inputs ----------------------------------------------
Procs == 1..NumProcs
Users == {1, 2}
Admins == {2}                    \* users whose is_admin is true
Customers == {1}                 \* users the sweep is run for
CampaignIds == {1, 2}
Businesses == {1, 2}
NoToken == 0                     \* qr_token is None
NoTime == -1                     \* a datetime column that is None
NoRating == -1                   \* user.rating is None
NoAmount == -2                   \* kwargs has no "amount"
NoCriteria == [k \in {} |-> 0]    \* criteria_json is None or {}
NoEntries == [k \in {} |-> FALSE] \* an empty result mapping
CancelCutoff == 60               \* timedelta(hours=1), in minutes
Idle == "idle"

VARIABLES
    now,            \* the wall clock (datetime.now / datetime.utcnow)
    campaigns,      \* Campaign rows, by id
    assignments,    \* committed CampaignAssignment rows
    progress,       \* committed CampaignProgress rows
    logs,           \* committed RuleEvaluationLog rows: (user, campaign) -> count
    usages,         \* committed CampaignUsage rows
    reservations,   \* committed Reservation rows: (user, business) -> count
    bookings,       \* committed Reservation rows as user_cancel_reservation reads them
    comments,       \* committed Comment rows: set of (user, business)
    nextAssignmentId, nextProgressId, nextToken,
    started,        \* handler invocations so far
    swept,          \* history: users for whom a sweep has committed
    pc,             \* where each handler is
    req,            \* the request each handler serves
    loc,            \* the handler's local variables
    tx,             \* the handler's session: rows flushed but not committed
    result          \* what the handler last returned

vars == <<now, campaigns, assignments, progress, logs, usages, reservations, bookings,
          comments, nextAssignmentId, nextProgressId, nextToken, started,
          swept, pc, req, loc, tx, result>>

\* ---- rows ---------------------------------------------------------------
Campaign(active, ruleType, singleUse, minutes, startDate, endDate, allowed) ==
    [is_active |-> active, rule_type |-> ruleType, is_single_use |-> singleUse,
     usage_duration_minutes |-> minutes, start_date |-> startDate,
     end_date |-> endDate, allowed_business_ids |-> allowed,
     criteria_json |-> NoCriteria]

CampaignAssignment(id, user, campaign, byRule) ==
    [id |-> id, user_id |-> user, campaign_id |-> campaign, is_used |-> FALSE,
     assigned_by_rule_engine |-> byRule, qr_token |-> NoToken,
     qr_expires_at |-> NoTime, expires_at |-> NoTime]

CampaignProgress(id, a) ==
    [id |-> id, assignment_id |-> a.id, user_id |-> a.user_id,
     campaign_id |-> a.campaign_id, comments_made |-> 0,
     reservations_made |-> 0, businesses_visited |-> 0, total_spend |-> 0,
     last_updated |-> NoTime]

\* a Reservation row: the columns user_cancel_reservation reads
Reservation(id, user, status, time) ==
    [id |-> id, user_id |-> user, status |-> status, reservation_time |-> time]

NoRow == [id |-> 0, user_id |-> 0, campaign_id |-> 0, is_used |-> FALSE,
          assigned_by_rule_engine |-> FALSE, qr_token |-> NoToken,
          qr_expires_at |-> NoTime, expires_at |-> NoTime]

NoRequest == [op |-> "none", user |-> 0, target |-> 0, campaign |-> 0,
              business |-> 0, assignment |-> 0, token |-> NoToken,
              flag |-> FALSE, amount |-> NoAmount, rating |-> NoRating,
              reservation |-> 0]

NoLocals == [todo |-> <<>>, row |-> NoRow]

EmptyTx == [asg |-> {}, prog |-> {}, logs |-> {}, writes |-> {}]

NoResult == [op |-> "none", status |-> "none", token |-> NoToken,
             expires |-> NoTime, assignment |-> 0, business |-> 0,
             created |-> 0, flag |-> FALSE, user |-> 0, campaign |-> 0,
             rating |-> NoRating, results |-> NoEntries, reservation |-> 0]

Request(op, user, target, campaign, business, assignment, token, flag) ==
    [op |-> op, user |-> user, target |-> target, campaign |-> campaign,
     business |-> business, assignment |-> assignment, token |-> token,
     flag |-> flag, amount |-> NoAmount, rating |-> NoRating,
     reservation |-> 0]

Result(r, status, token, expires, created) ==
    [op |-> r.op, status |-> status, token |-> token, expires |-> expires,
     assignment |-> r.assignment, business |-> r.business,
     created |-> created, flag |-> r.flag, user |-> r.target,
     campaign |-> r.campaign, rating |-> r.rating, results |-> NoEntries,
     reservation |-> r.reservation]

Failure(r, status) == Result(r, status, NoToken, NoTime, 0)

\* ---- helpers ------------------------------------------------------------
RECURSIVE SetToSeq(_)
SetToSeq(S) ==
    IF S = {} THEN <<>>
    ELSE LET m == CHOOSE x \in S : \A y \in S : x <= y
         IN <<m>> \o SetToSeq(S \ {m})

\* rows a session's query returns: the committed ones and its own pending ones
VisibleAssignments(p) == assignments \cup tx[p].asg
VisibleProgress(p) == progress \cup tx[p].prog

Pair(a, u, c) == a.user_id = u /\ a.campaign_id = c

\* session.commit(): pending inserts and updates reach the committed state
ApplyWrites(row, writes) ==
    [f \in DOMAIN row |->
        IF \E w \in writes : w[1] = row.id /\ w[2] = f
        THEN (CHOOSE w \in writes : w[1] = row.id /\ w[2] = f)[3]
        ELSE row[f]]

CommittedProgress(p) ==
    {ApplyWrites(r, tx[p].writes) : r \in progress} \cup tx[p].prog

CommittedLogs(p) ==
    [k \in DOMAIN logs |-> IF k \in tx[p].logs THEN logs[k] + 1 ELSE logs[k]]

Finish(p, res) ==
    /\ pc' = [pc EXCEPT ![p] = Idle]
    /\ tx' = [tx EXCEPT ![p] = EmptyTx]
    /\ loc' = [loc EXCEPT ![p] = NoLocals]
    /\ req' = [req EXCEPT ![p] = NoRequest]
    /\ result' = [result EXCEPT ![p] = res]

Begin(p) ==
    /\ pc[p] = Idle
    /\ started < MaxOps
    /\ started' = started + 1

Database == <<campaigns, assignments, progress, logs, usages, reservations, bookings,
              comments>>

\* ---- storage: the uniqueness constraint on (user_id, campaign_id) --------
\* An INSERT of a pair that a committed row already has is rejected
\* (IntegrityError at flush).
NoUniqueConstraint(u, c) == FALSE

UniqueViolation(u, c) == \E a \in assignments : Pair(a, u, c)

\* An INSERT of a pair that another open transaction has inserted waits for
\* that transaction to commit or roll back.
InsertBlocked(p, u, c) ==
    \E q \in Procs \ {p} : \E a \in tx[q].asg : Pair(a, u, c)

\* ---- Assignment Manager: manually_assign_campaign ------------------------
existing(p, u, c) == \E a \in VisibleAssignments(p) : Pair(a, u, c)

existing_progress(p, a) ==
    \E r \in VisibleProgress(p) : r.assignment_id = a.id

create_no_progress(p, a) == {}

\* the rows create_progress_for_assignment adds to the session
create_progress_for_assignment(p, a) ==
    IF existing_progress(p, a) THEN {}
    ELSE {CampaignProgress(nextProgressId, a)}

\* the admin, campaign, user and existing-assignment checks
ManualStart(p, caller, cid, uid) ==
    LET r == Request("manual_assign", caller, uid, cid, 0, 0, NoToken, FALSE)
    IN  /\ Begin(p)
        /\ IF caller \notin Admins THEN Finish(p, Failure(r, "forbidden"))
           ELSE IF cid \notin CampaignIds
                THEN Finish(p, Failure(r, "campaign_not_found"))
           ELSE IF uid \notin Users
                THEN Finish(p, Failure(r, "user_not_found"))
           ELSE IF existing(p, uid, cid)
                THEN Finish(p, Failure(r, "duplicate_assignment"))
           ELSE /\ pc' = [pc EXCEPT ![p] = "m_flush"]
                /\ req' = [req EXCEPT ![p] = r]
                /\ UNCHANGED <<tx, loc, result>>
        /\ UNCHANGED <<now, Database, nextAssignmentId, nextProgressId,
                       nextToken, swept>>

\* db.add(assignment); db.flush()
ManualFlush(p) ==
    LET u == req[p].target
        c == req[p].campaign
        a == CampaignAssignment(nextAssignmentId, u, c, FALSE)
    IN  /\ pc[p] = "m_flush"
        /\ ~InsertBlocked(p, u, c)
        /\ IF UniqueViolation(u, c)
           THEN /\ Finish(p, Failure(req[p], "integrity_error"))
                /\ UNCHANGED nextAssignmentId
           ELSE /\ tx' = [tx EXCEPT ![p].asg = @ \cup {a}]
                /\ loc' = [loc EXCEPT ![p].row = a]
                /\ nextAssignmentId' = nextAssignmentId + 1
                /\ pc' = [pc EXCEPT ![p] = "m_progress"]
                /\ UNCHANGED <<result, req>>
        /\ UNCHANGED <<now, Database, nextProgressId, nextToken, started,
                       swept>>

\* create_progress_for_assignment(assignment, db) and the return; the commit
\* is inside the helper, on the branch that adds the progress row
ManualProgress(p) ==
    LET a == loc[p].row
    IN  /\ pc[p] = "m_progress"
        /\ IF existing_progress(p, a)
           THEN UNCHANGED <<assignments, progress, nextProgressId>>
           ELSE /\ assignments' = assignments \cup tx[p].asg
                /\ progress' = CommittedProgress(p)
                                   \cup create_progress_for_assignment(p, a)
                /\ nextProgressId' = nextProgressId + 1
        /\ Finish(p, Result(req[p], "ok", NoToken, NoTime,
                            Cardinality(tx[p].asg)))
        /\ UNCHANGED <<now, campaigns, logs, usages, reservations, bookings, comments,
                       nextAssignmentId, nextToken, started, swept>>

\* ---- Assignment Manager: assign_eligible_campaigns ------------------------
never_assigned(p, u, c) == FALSE

already_assigned(p, u, c) == \E a \in VisibleAssignments(p) : Pair(a, u, c)

DynamicActive ==
    {c \in CampaignIds :
        campaigns[c].rule_type = "dynamic" /\ campaigns[c].is_active}

\* the query for the active dynamic campaigns
SweepStart(p, u) ==
    /\ Begin(p)
    /\ req' = [req EXCEPT ![p] =
                  Request("sweep", u, u, 0, 0, 0, NoToken, u \in swept)]
    /\ loc' = [loc EXCEPT ![p].todo = SetToSeq(DynamicActive)]
    /\ pc' = [pc EXCEPT ![p] = "s_loop"]
    /\ UNCHANGED <<now, Database, nextAssignmentId, nextProgressId,
                   nextToken, swept, tx, result>>

\* one turn of the loop up to the existence check, or the final db.commit()
SweepLoop(p) ==
    LET u == req[p].target
        todo == loc[p].todo
    IN  /\ pc[p] = "s_loop"
        /\ IF todo = <<>>
           THEN /\ assignments' = assignments \cup tx[p].asg
                /\ progress' = CommittedProgress(p)
                /\ logs' = CommittedLogs(p)
                /\ swept' = swept \cup {u}
                /\ Finish(p, Result(req[p], "ok", NoToken, NoTime,
                                    Cardinality(tx[p].asg)))
           ELSE /\ IF already_assigned(p, u, Head(todo))
                   THEN /\ loc' = [loc EXCEPT ![p].todo = Tail(todo)]
                        /\ UNCHANGED pc
                   ELSE /\ pc' = [pc EXCEPT ![p] = "s_flush"]
                        /\ UNCHANGED loc
                /\ UNCHANGED <<assignments, progress, logs, swept, tx,
                               result, req>>
        /\ UNCHANGED <<now, campaigns, usages, reservations, bookings, comments,
                       nextAssignmentId, nextProgressId, nextToken, started>>

\* db.add(assignment); db.flush(); db.add(progress); db.add(log)
SweepFlush(p) ==
    LET u == req[p].target
        c == Head(loc[p].todo)
        a == CampaignAssignment(nextAssignmentId, u, c, TRUE)
    IN  /\ pc[p] = "s_flush"
        /\ ~InsertBlocked(p, u, c)
        /\ IF UniqueViolation(u, c)
           THEN /\ Finish(p, Failure(req[p], "integrity_error"))
                /\ UNCHANGED <<nextAssignmentId, nextProgressId>>
           ELSE /\ tx' = [tx EXCEPT
                             ![p].asg = @ \cup {a},
                             ![p].prog = @ \cup {CampaignProgress(nextProgressId, a)},
                             ![p].logs = @ \cup {<<u, c>>}]
                /\ loc' = [loc EXCEPT ![p].todo = Tail(@)]
                /\ nextAssignmentId' = nextAssignmentId + 1
                /\ nextProgressId' = nextProgressId + 1
                /\ pc' = [pc EXCEPT ![p] = "s_loop"]
                /\ UNCHANGED <<result, req>>
        /\ UNCHANGED <<now, Database, nextToken, started, swept>>

\* ---- Progress Tracker: update_campaign_progress and its callers ----------
\* the assignments of the user that are not used and whose campaign is active
\* with start_date <= now <= end_date
active_assignments(u) ==
    {a \in assignments :
        /\ a.user_id = u
        /\ a.is_used = FALSE
        /\ campaigns[a.campaign_id].is_active
        /\ campaigns[a.campaign_id].start_date <= now
        /\ campaigns[a.campaign_id].end_date >= now}

no_previous_reservation(p, u, b) == FALSE

\* the query for a reservation of the user at the business; it runs after
\* create_reservation has committed the new row, and Reservation.id != None
\* excludes no row
previous_reservation(p, u, b) == reservations[<<u, b>>] > 0

\* every action type counted as a comment
IncrementsAsComment(p, r) ==
    {<<"comments_made", r.comments_made + 1>>, <<"last_updated", now>>}

\* the counters of a progress row after one event, as (column, value) pairs
Increments(p, r) ==
    LET action == req[p].op
    IN  (IF action = "comment"
         THEN {<<"comments_made", r.comments_made + 1>>}
         ELSE IF action = "reservation"
         THEN {<<"reservations_made", r.reservations_made + 1>>}
              \cup (IF previous_reservation(p, req[p].user, req[p].business)
                    THEN {}
                    ELSE {<<"businesses_visited", r.businesses_visited + 1>>})
         ELSE IF action = "purchase" /\ req[p].amount # NoAmount
         THEN {<<"total_spend", r.total_spend + req[p].amount>>}
         ELSE {})
        \cup {<<"last_updated", now>>}

\* create_comment up to the commit of the new comment
CommentStart(p, u, b) ==
    LET r == Request("comment", u, u, 0, b, 0, NoToken, FALSE)
    IN  /\ Begin(p)
        /\ IF <<u, b>> \in comments
           THEN /\ Finish(p, Failure(r, "already_commented"))
                /\ UNCHANGED comments
           ELSE /\ comments' = comments \cup {<<u, b>>}
                /\ req' = [req EXCEPT ![p] = r]
                /\ pc' = [pc EXCEPT ![p] = "r_query"]
                /\ UNCHANGED <<tx, loc, result>>
        /\ UNCHANGED <<now, campaigns, assignments, progress, logs, usages,
                       reservations, bookings, nextAssignmentId, nextProgressId,
                       nextToken, swept>>

\* create_reservation up to the commit of the new reservation; the flag
\* records whether the user had no reservation at the business before
ReservationStart(p, u, b) ==
    /\ Begin(p)
    /\ reservations' = [reservations EXCEPT ![<<u, b>>] = @ + 1]
    /\ bookings' = bookings \cup
          {Reservation(Cardinality(bookings) + 1, u, "pending",
                       now + CancelCutoff + 1)}
    /\ req' = [req EXCEPT ![p] =
                  Request("reservation", u, u, 0, b, 0, NoToken,
                          reservations[<<u, b>>] = 0)]
    /\ pc' = [pc EXCEPT ![p] = "r_query"]
    /\ UNCHANGED <<now, campaigns, assignments, progress, logs, usages,
                   comments, nextAssignmentId, nextProgressId, nextToken,
                   swept, tx, loc, result>>

\* update_campaign_progress: the query for the active assignments
RecordQuery(p) ==
    /\ pc[p] = "r_query"
    /\ loc' = [loc EXCEPT ![p].todo =
                  SetToSeq({a.id : a \in active_assignments(req[p].user)})]
    /\ pc' = [pc EXCEPT ![p] = "r_loop"]
    /\ UNCHANGED <<now, Database, nextAssignmentId, nextProgressId,
                   nextToken, started, swept, req, tx, result>>

\* update_campaign_progress: one turn of the loop (load or create the progress
\* row, change its counters in the session), or the single db.commit()
RecordLoop(p) ==
    LET todo == loc[p].todo
        a == CHOOSE x \in assignments : x.id = Head(todo)
        rows == {r \in VisibleProgress(p) : r.assignment_id = a.id}
        first == CHOOSE r \in rows : \A o \in rows : r.id <= o.id
        fresh == CampaignProgress(nextProgressId, a)
    IN  /\ pc[p] = "r_loop"
        /\ IF todo = <<>>
           THEN /\ progress' = CommittedProgress(p)
                /\ Finish(p, Result(req[p], "ok", NoToken, NoTime,
                                    Cardinality(tx[p].prog)))
                /\ UNCHANGED nextProgressId
           ELSE /\ IF rows = {}
                   THEN /\ tx' = [tx EXCEPT ![p].prog = @ \cup
                             {ApplyWrites(fresh,
                                 {<<fresh.id, w[1], w[2]>> :
                                     w \in Increments(p, fresh)})}]
                        /\ nextProgressId' = nextProgressId + 1
                   ELSE /\ tx' = [tx EXCEPT ![p].writes = @ \cup
                             {<<first.id, w[1], w[2]>> :
                                 w \in Increments(p, first)}]
                        /\ UNCHANGED nextProgressId
                /\ loc' = [loc EXCEPT ![p].todo = Tail(todo)]
                /\ UNCHANGED <<progress, pc, req, result>>
        /\ UNCHANGED <<now, campaigns, assignments, logs, usages,
                       reservations, bookings, comments, nextAssignmentId, nextToken,
                       started, swept>>

\* a direct call of update_campaign_progress(db, u, "purchase", amount=...)
PurchaseStart(p, u, amount) ==
    /\ Begin(p)
    /\ req' = [req EXCEPT ![p] =
                  [Request("purchase", u, u, 0, 0, 0, NoToken, FALSE)
                      EXCEPT !.amount = amount]]
    /\ pc' = [pc EXCEPT ![p] = "r_query"]
    /\ UNCHANGED <<now, Database, nextAssignmentId, nextProgressId,
                   nextToken, swept, tx, loc, result>>

\* a direct call of update_campaign_progress with an action type that has
\* no branch
OtherStart(p, u, action) ==
    /\ Begin(p)
    /\ req' = [req EXCEPT ![p] =
                  Request(action, u, u, 0, 0, 0, NoToken, FALSE)]
    /\ pc' = [pc EXCEPT ![p] = "r_query"]
    /\ UNCHANGED <<now, Database, nextAssignmentId, nextProgressId,
                   nextToken, swept, tx, loc, result>>

RecordFailCommits(p) ==
    /\ pc[p] = "r_loop"
    /\ progress' = CommittedProgress(p)
    /\ Finish(p, [Failure(req[p], "error") EXCEPT
                     !.created = Cardinality({w[1] : w \in tx[p].writes})])
    /\ UNCHANGED <<now, campaigns, assignments, logs, usages, reservations, bookings,
                   comments, nextAssignmentId, nextProgressId, nextToken,
                   started, swept>>

\* an exception inside the loop of update_campaign_progress: the caller's
\* except branch rolls the session back, nothing of the loop is committed;
\* the result records how many progress rows had been changed in the session
RecordFail(p) ==
    /\ pc[p] = "r_loop"
    /\ Finish(p, [Failure(req[p], "error") EXCEPT
                     !.created = Cardinality({w[1] : w \in tx[p].writes})])
    /\ UNCHANGED <<now, Database, nextAssignmentId, nextProgressId,
                   nextToken, started, swept>>

\* ---- Redemption Token Issuer: use_campaign --------------------------------
\* secrets.token_urlsafe: a value no earlier call returned
fixed_code == NoToken + 1

generate_unique_code == nextToken

token_never_valid(row) == FALSE

\* a token is stored and its expiry is after now
token_still_valid(row) ==
    /\ row.qr_token # NoToken
    /\ row.qr_expires_at # NoTime
    /\ row.qr_expires_at > now

used_or_inactive(row) ==
    \/ campaigns[row.campaign_id].is_single_use /\ row.is_used
    \/ ~campaigns[row.campaign_id].is_active

\* the check that refuses a consumed assignment of a single-use campaign
already_used(row) == campaigns[row.campaign_id].is_single_use /\ row.is_used

UseReadAnyOwner(p, caller, aid) ==
    LET rows == {a \in assignments : a.id = aid}
    IN  /\ Begin(p)
        /\ req' = [req EXCEPT ![p] =
                      Request("use", caller, caller, 0, 0, aid, NoToken, FALSE)]
        /\ loc' = [loc EXCEPT ![p].row =
                      IF rows = {} THEN NoRow ELSE CHOOSE a \in rows : TRUE]
        /\ pc' = [pc EXCEPT ![p] = "u_decide"]
        /\ UNCHANGED <<now, Database, nextAssignmentId, nextProgressId,
                       nextToken, swept, tx, result>>

\* the query for the assignment with this id that belongs to the caller
UseRead(p, caller, aid) ==
    LET rows == {a \in assignments : a.id = aid /\ a.user_id = caller}
    IN  /\ Begin(p)
        /\ req' = [req EXCEPT ![p] =
                      Request("use", caller, caller, 0, 0, aid, NoToken, FALSE)]
        /\ loc' = [loc EXCEPT ![p].row =
                      IF rows = {} THEN NoRow ELSE CHOOSE a \in rows : TRUE]
        /\ pc' = [pc EXCEPT ![p] = "u_decide"]
        /\ UNCHANGED <<now, Database, nextAssignmentId, nextProgressId,
                       nextToken, swept, tx, result>>

UseDecideMarksUsed(p) ==
    LET row == loc[p].row
        token == generate_unique_code
        expires == now + campaigns[row.campaign_id].usage_duration_minutes
    IN  /\ pc[p] = "u_decide"
        /\ IF row = NoRow
           THEN /\ Finish(p, Failure(req[p], "assignment_not_found"))
                /\ UNCHANGED <<assignments, nextToken>>
           ELSE IF already_used(row)
           THEN /\ Finish(p, Failure(req[p], "already_used"))
                /\ UNCHANGED <<assignments, nextToken>>
           ELSE IF token_still_valid(row)
           THEN /\ Finish(p, Result(req[p], "ok", row.qr_token,
                                    row.qr_expires_at, 0))
                /\ UNCHANGED <<assignments, nextToken>>
           ELSE /\ assignments' =
                      {IF a.id = row.id
                       THEN [a EXCEPT !.qr_token = token,
                                      !.qr_expires_at = expires,
                                      !.is_used = TRUE]
                       ELSE a : a \in assignments}
                /\ nextToken' = nextToken + 1
                /\ Finish(p, Result(req[p], "ok", token, expires, 1))
        /\ UNCHANGED <<now, campaigns, progress, logs, usages, reservations,
                       bookings, comments, nextAssignmentId, nextProgressId,
                       started, swept>>

\* the checks on the loaded row, then either the stored token is returned or
\* a new one is written, committed and returned
UseDecide(p) ==
    LET row == loc[p].row
        token == generate_unique_code
        expires == now + campaigns[row.campaign_id].usage_duration_minutes
    IN  /\ pc[p] = "u_decide"
        /\ IF row = NoRow
           THEN /\ Finish(p, Failure(req[p], "assignment_not_found"))
                /\ UNCHANGED <<assignments, nextToken>>
           ELSE IF already_used(row)
           THEN /\ Finish(p, Failure(req[p], "already_used"))
                /\ UNCHANGED <<assignments, nextToken>>
           ELSE IF token_still_valid(row)
           THEN /\ Finish(p, Result(req[p], "ok", row.qr_token,
                                    row.qr_expires_at, 0))
                /\ UNCHANGED <<assignments, nextToken>>
           ELSE /\ assignments' =
                      {IF a.id = row.id
                       THEN [a EXCEPT !.qr_token = token,
                                      !.qr_expires_at = expires]
                       ELSE a : a \in assignments}
                /\ nextToken' = nextToken + 1
                /\ Finish(p, Result(req[p], "ok", token, expires, 1))
        /\ UNCHANGED <<now, campaigns, progress, logs, usages, reservations, bookings,
                       comments, nextAssignmentId, nextProgressId, started,
                       swept>>

\* ---- Redemption Token Issuer: consumeToken --------------------------------
\* The redeeming endpoint is not among the source files; it is taken from the
\* specification: one atomic check-then-mark-used per call.
Holders(token) ==
    {a \in assignments : token # NoToken /\ a.qr_token = token}

isBusinessAllowed(c, b) ==
    campaigns[c].allowed_business_ids = {}
        \/ b \in campaigns[c].allowed_business_ids

ConsumeIgnoresUsed(token, b) ==
    IF Holders(token) = {} THEN "token_not_found"
    ELSE LET a == CHOOSE x \in Holders(token) : TRUE
         IN  IF now > a.qr_expires_at THEN "token_expired"
             ELSE IF ~isBusinessAllowed(a.campaign_id, b)
             THEN "business_not_allowed"
             ELSE "ok"

ConsumeUsedFirst(token, b) ==
    IF Holders(token) = {} THEN "token_not_found"
    ELSE LET a == CHOOSE x \in Holders(token) : TRUE
         IN  IF campaigns[a.campaign_id].is_single_use /\ a.is_used
             THEN "already_used"
             ELSE IF now > a.qr_expires_at THEN "token_expired"
             ELSE IF ~isBusinessAllowed(a.campaign_id, b)
             THEN "business_not_allowed"
             ELSE "ok"

ConsumeOutcome(token, b) ==
    IF Holders(token) = {} THEN "token_not_found"
    ELSE LET a == CHOOSE x \in Holders(token) : TRUE
         IN  IF now > a.qr_expires_at THEN "token_expired"
             ELSE IF campaigns[a.campaign_id].is_single_use /\ a.is_used
             THEN "already_used"
             ELSE IF ~isBusinessAllowed(a.campaign_id, b)
             THEN "business_not_allowed"
             ELSE "ok"

\* a redeeming request arrives
ConsumeStart(p, token, b) ==
    /\ Begin(p)
    /\ req' = [req EXCEPT ![p] =
                  Request("consume", 0, 0, 0, b, 0, token, FALSE)]
    /\ pc' = [pc EXCEPT ![p] = "c_run"]
    /\ UNCHANGED <<now, Database, nextAssignmentId, nextProgressId,
                   nextToken, swept, tx, loc, result>>

\* the transaction of consumeToken
ConsumeToken(p) ==
    LET token == req[p].token
        b == req[p].business
        outcome == ConsumeOutcome(token, b)
        a == CHOOSE x \in Holders(token) : TRUE
        r == [req[p] EXCEPT
                 !.assignment = IF Holders(token) = {} THEN 0 ELSE a.id]
    IN  /\ pc[p] = "c_run"
        /\ IF outcome = "ok"
           THEN /\ usages' = usages \cup
                      {[id |-> Cardinality(usages) + 1, assignment_id |-> a.id,
                        user_id |-> a.user_id, campaign_id |-> a.campaign_id,
                        business_id |-> b, used_at |-> now]}
                /\ assignments' =
                      {IF x.id = a.id /\ campaigns[x.campaign_id].is_single_use
                       THEN [x EXCEPT !.is_used = TRUE]
                       ELSE x : x \in assignments}
           ELSE UNCHANGED <<usages, assignments>>
        /\ Finish(p, Result(r, outcome, token, NoTime, 0))
        /\ UNCHANGED <<now, campaigns, progress, logs, reservations, bookings, comments,
                       nextAssignmentId, nextProgressId, nextToken, started,
                       swept>>

\* ---- Rule Evaluator: evaluate_campaign_rules --------------------------------
\* the keys of criteria_json the evaluator has a branch for
RecognizedKeys ==
    {"min_comments_after_assignment", "min_reservations_after_assignment",
     "min_businesses_visited", "min_spend_after_assignment", "min_rating",
     "min_reservations", "min_comments"}

RECURSIVE CountRows(_, _)
CountRows(u, bs) ==
    IF bs = {} THEN 0
    ELSE LET b == CHOOSE x \in bs : TRUE
         IN  reservations[<<u, b>>] + CountRows(u, bs \ {b})

\* the Reservation rows and the Comment rows of the user
reservation_count(u) == CountRows(u, Businesses)
comment_count(u) == Cardinality({k \in comments : k[1] = u})

\* a counter compared with its threshold
meets(value, threshold) == value >= threshold

all_true(criteria) == [k \in DOMAIN criteria |-> TRUE]

\* the mapping of the early returns: every key of the criteria is False
all_false(criteria) == [k \in DOMAIN criteria |-> FALSE]

\* the entry of one recognized key, from the progress row, the user's rating
\* and the user's history
entry(key, threshold, prog, u, rating) ==
    CASE key = "min_comments_after_assignment" ->
            meets(prog.comments_made, threshold)
      [] key = "min_reservations_after_assignment" ->
            meets(prog.reservations_made, threshold)
      [] key = "min_businesses_visited" ->
            meets(prog.businesses_visited, threshold)
      [] key = "min_spend_after_assignment" ->
            meets(prog.total_spend, threshold)
      [] key = "min_rating" -> rating # NoRating /\ meets(rating, threshold)
      [] key = "min_reservations" -> meets(reservation_count(u), threshold)
      [] key = "min_comments" -> meets(comment_count(u), threshold)

\* the mapping evaluate_campaign_rules returns for a user (id and rating) and
\* a campaign, read from the committed rows
evaluate_campaign_rules(u, rating, c) ==
    LET criteria == campaigns[c].criteria_json
        found == {a \in assignments : Pair(a, u, c)}
        assignment == CHOOSE a \in found : \A o \in found : a.id <= o.id
        rows == {r \in progress : r.assignment_id = assignment.id}
        prog == CHOOSE r \in rows : \A o \in rows : r.id <= o.id
    IN  IF found = {} THEN all_false(criteria)
        ELSE IF rows = {} THEN all_false(criteria)
        ELSE [k \in DOMAIN criteria \cap RecognizedKeys |->
                 entry(k, criteria[k], prog, u, rating)]

EvaluateAndLog(p, u, rating, c) ==
    LET r == [Request("evaluate", u, u, c, 0, 0, NoToken, FALSE)
                 EXCEPT !.rating = rating]
    IN  /\ pc[p] = Idle
        /\ logs' = [logs EXCEPT ![<<u, c>>] = 1]
        /\ Finish(p, [Result(r, "ok", NoToken, NoTime, 0) EXCEPT
                         !.results = evaluate_campaign_rules(u, rating, c)])
        /\ UNCHANGED <<now, campaigns, assignments, progress, usages,
                       reservations, bookings, comments, nextAssignmentId,
                       nextProgressId, nextToken, started, swept>>

\* a call of evaluate_campaign_rules: queries only, nothing is added to the
\* session and nothing is committed
Evaluate(p, u, rating, c) ==
    LET r == [Request("evaluate", u, u, c, 0, 0, NoToken, FALSE)
                 EXCEPT !.rating = rating]
    IN  /\ pc[p] = Idle
        /\ Finish(p, [Result(r, "ok", NoToken, NoTime, 0) EXCEPT
                         !.results = evaluate_campaign_rules(u, rating, c)])
        /\ UNCHANGED <<now, Database, nextAssignmentId, nextProgressId,
                       nextToken, started, swept>>

\* the clock
\* ---- Reservations: user_cancel_reservation ---------------------------------
\* the values of ReservationStatus
Statuses == {"pending", "confirmed", "cancelled", "completed", "rejected"}

\* the time check of the cancel endpoint: one hour before the reservation
\* has been reached or passed
past_cutoff_only(row) == row.reservation_time - CancelCutoff < now

too_late(row) == row.reservation_time - CancelCutoff <= now

\* can_cancel as get_reservation_status reports it
can_cancel(row) ==
    /\ row.status \in {"pending", "confirmed"}
    /\ row.reservation_time - now > CancelCutoff

\* the query by the id alone
CancelReadAnyOwner(p, caller, rid) ==
    LET found == {b \in bookings : b.id = rid}
    IN  /\ Begin(p)
        /\ req' = [req EXCEPT ![p] =
                      [Request("cancel", caller, caller, 0, 0, 0, NoToken, FALSE)
                          EXCEPT !.reservation = rid]]
        /\ loc' = [loc EXCEPT ![p] =
                      [NoLocals EXCEPT !.row =
                          IF found = {} THEN NoRow
                          ELSE CHOOSE b \in found : TRUE]]
        /\ pc' = [pc EXCEPT ![p] = "x_decide"]
        /\ UNCHANGED <<now, Database, nextAssignmentId, nextProgressId,
                       nextToken, swept, tx, result>>

\* the query for the reservation by its id and the caller's user id
CancelRead(p, caller, rid) ==
    LET found == {b \in bookings : b.id = rid /\ b.user_id = caller}
    IN  /\ Begin(p)
        /\ req' = [req EXCEPT ![p] =
                      [Request("cancel", caller, caller, 0, 0, 0, NoToken, FALSE)
                          EXCEPT !.reservation = rid]]
        /\ loc' = [loc EXCEPT ![p] =
                      [NoLocals EXCEPT !.row =
                          IF found = {} THEN NoRow
                          ELSE CHOOSE b \in found : TRUE]]
        /\ pc' = [pc EXCEPT ![p] = "x_decide"]
        /\ UNCHANGED <<now, Database, nextAssignmentId, nextProgressId,
                       nextToken, swept, tx, result>>

\* the checks on the loaded row, then the status is set to cancelled and
\* committed
CancelDecide(p) ==
    LET row == loc[p].row
    IN  /\ pc[p] = "x_decide"
        /\ IF row = NoRow
           THEN /\ Finish(p, Failure(req[p], "reservation_not_found"))
                /\ UNCHANGED bookings
           ELSE IF row.status = "cancelled"
           THEN /\ Finish(p, Failure(req[p], "already_cancelled"))
                /\ UNCHANGED bookings
           ELSE IF row.status \in {"completed", "rejected"}
           THEN /\ Finish(p, Failure(req[p], "cannot_cancel"))
                /\ UNCHANGED bookings
           ELSE IF too_late(row)
           THEN /\ Finish(p, Failure(req[p], "too_late"))
                /\ UNCHANGED bookings
           ELSE /\ bookings' =
                      {IF b.id = row.id
                       THEN [b EXCEPT !.status = "cancelled"]
                       ELSE b : b \in bookings}
                /\ Finish(p, Result(req[p], "ok", NoToken, NoTime, 0))
        /\ UNCHANGED <<now, campaigns, assignments, progress, logs, usages,
                       reservations, comments, nextAssignmentId,
                       nextProgressId, nextToken, started, swept>>

Tick ==
    /\ now < MaxTime
    /\ now' = now + 1
    /\ UNCHANGED <<Database, nextAssignmentId, nextProgressId, nextToken,
                   started, swept, pc, req, loc, tx, result>>

\* ---- initial states ------------------------------------------------------
InitHandlers ==
    /\ started = 0
    /\ swept = {}
    /\ pc = [p \in Procs |-> Idle]
    /\ req = [p \in Procs |-> NoRequest]
    /\ loc = [p \in Procs |-> NoLocals]
    /\ tx = [p \in Procs |-> EmptyTx]
    /\ result = [p \in Procs |-> NoResult]

EmptyTables ==
    /\ assignments = {}
    /\ progress = {}
    /\ logs = [k \in Users \X CampaignIds |-> 0]
    /\ usages = {}
    /\ reservations = [k \in Users \X Businesses |-> 0]
    /\ bookings = {}
    /\ comments = {}
    /\ nextAssignmentId = 1
    /\ nextProgressId = 1
    /\ nextToken = 1

\* Assignment Manager: an empty database; campaign 1 is dynamic, active or
\* not, campaign 2 is active, dynamic or static
InitAssign ==
    /\ now = 0
    /\ \E act \in BOOLEAN, rt \in {"static", "dynamic"} :
          campaigns = (1 :> Campaign(act, "dynamic", FALSE, 1, 0, MaxTime, {})
                    @@ 2 :> Campaign(TRUE, rt, FALSE, 1, 0, MaxTime, {}))
    /\ EmptyTables
    /\ InitHandlers

NextAssign ==
    \E p \in Procs :
        \/ \E caller \in Users, cid \in CampaignIds, uid \in Users :
              ManualStart(p, caller, cid, uid)
        \/ ManualFlush(p)
        \/ ManualProgress(p)
        \/ \E u \in Customers : SweepStart(p, u)
        \/ SweepLoop(p)
        \/ SweepFlush(p)

SpecAssign == InitAssign /\ [][NextAssign]_vars

\* Progress Tracker: user 1 holds an assignment of each campaign and user 2
\* one of campaign 1, each with its progress row; campaign 2 is active or
\* not and its window ends at time 1; the events happen at any one time
InitEvent ==
    /\ now \in 0..MaxTime
    /\ \E act \in BOOLEAN :
          campaigns = (1 :> Campaign(TRUE, "dynamic", FALSE, 1, 0, MaxTime, {})
                    @@ 2 :> Campaign(act, "static", FALSE, 1, 0, 1, {}))
    /\ assignments = {CampaignAssignment(1, 1, 1, TRUE),
                      CampaignAssignment(2, 1, 2, FALSE),
                      CampaignAssignment(3, 2, 1, TRUE)}
    /\ progress = {CampaignProgress(a.id, a) : a \in assignments}
    /\ logs = [k \in Users \X CampaignIds |-> 0]
    /\ usages = {}
    /\ reservations = [k \in Users \X Businesses |-> 0]
    /\ bookings = {}
    /\ comments = {}
    /\ nextAssignmentId = 4
    /\ nextProgressId = 4
    /\ nextToken = 1
    /\ InitHandlers

NextEvent ==
    \E p \in Procs :
        \/ \E u \in Customers, b \in Businesses : CommentStart(p, u, b)
        \/ \E u \in Customers, b \in Businesses : ReservationStart(p, u, b)
        \/ RecordQuery(p)
        \/ RecordLoop(p)

SpecEvent == InitEvent /\ [][NextEvent]_vars

Amounts == {-1, 2}

\* Progress Tracker with purchases: comments and purchases of user 1 from
\* the states of InitEvent
NextRecord ==
    \E p \in Procs :
        \/ \E u \in Customers, b \in Businesses : CommentStart(p, u, b)
        \/ \E u \in Customers, amount \in Amounts : PurchaseStart(p, u, amount)
        \/ RecordQuery(p)
        \/ RecordLoop(p)

SpecRecord == InitEvent /\ [][NextRecord]_vars

\* an action type update_campaign_progress has no branch for
OtherActions == {"visit"}

\* Progress Tracker with events it does not count: comments of user 1, calls
\* with an unknown action type and purchases without an amount
NextOther ==
    \E p \in Procs :
        \/ \E u \in Customers, b \in Businesses : CommentStart(p, u, b)
        \/ \E u \in Customers, action \in OtherActions :
              OtherStart(p, u, action)
        \/ \E u \in Customers : PurchaseStart(p, u, NoAmount)
        \/ RecordQuery(p)
        \/ RecordLoop(p)

SpecOther == InitEvent /\ [][NextOther]_vars

\* Progress Tracker with failures: a call may fail at any turn of its loop
NextFail ==
    \E p \in Procs :
        \/ \E u \in Customers, b \in Businesses : CommentStart(p, u, b)
        \/ RecordQuery(p)
        \/ RecordLoop(p)
        \/ RecordFail(p)

SpecFail == InitEvent /\ [][NextFail]_vars

\* Redemption Token Issuer: user 1 holds an assignment of campaign 1, which
\* is single-use or not, issues tokens for one or two ticks and is redeemable
\* everywhere or at business 1 only
InitToken ==
    /\ now = 0
    /\ \E single \in BOOLEAN, minutes \in {1, 2}, allowed \in {{}, {1}} :
          campaigns =
              (1 :> Campaign(TRUE, "static", single, minutes, 0, MaxTime, allowed)
            @@ 2 :> Campaign(TRUE, "dynamic", FALSE, 1, 0, MaxTime, {}))
    /\ assignments = {CampaignAssignment(1, 1, 1, FALSE)}
    /\ progress = {CampaignProgress(a.id, a) : a \in assignments}
    /\ logs = [k \in Users \X CampaignIds |-> 0]
    /\ usages = {}
    /\ reservations = [k \in Users \X Businesses |-> 0]
    /\ bookings = {}
    /\ comments = {}
    /\ nextAssignmentId = 2
    /\ nextProgressId = 2
    /\ nextToken = 1
    /\ InitHandlers

NextToken ==
    \/ \E p \in Procs :
          \/ \E caller \in Users, aid \in {1} : UseRead(p, caller, aid)
          \/ UseDecide(p)
          \/ \E token \in 0..(nextToken - 1), b \in Businesses :
                ConsumeStart(p, token, b)
          \/ ConsumeToken(p)
    \/ Tick

SpecToken == InitToken /\ [][NextToken]_vars

\* Assignment Manager and Progress Tracker together: an empty database,
\* campaign 1 dynamic and campaign 2 static, both active; assignments are
\* made for user 1 while user 1 posts comments
InitLife ==
    /\ now = 0
    /\ campaigns = (1 :> Campaign(TRUE, "dynamic", FALSE, 1, 0, MaxTime, {})
                 @@ 2 :> Campaign(TRUE, "static", FALSE, 1, 0, MaxTime, {}))
    /\ EmptyTables
    /\ InitHandlers

NextLife ==
    \E p \in Procs :
        \/ \E caller \in Admins, cid \in CampaignIds, uid \in Customers :
              ManualStart(p, caller, cid, uid)
        \/ ManualFlush(p)
        \/ ManualProgress(p)
        \/ \E u \in Customers : SweepStart(p, u)
        \/ SweepLoop(p)
        \/ SweepFlush(p)
        \/ \E u \in Customers, b \in Businesses : CommentStart(p, u, b)
        \/ RecordQuery(p)
        \/ RecordLoop(p)

SpecLife == InitLife /\ [][NextLife]_vars

UnknownId == 3                   \* an id no Campaign or User row has

\* Assignment Manager, manual assignments only: any user calls for any
\* campaign id and any target user id, existing or not
NextManual ==
    \E p \in Procs :
        \/ \E caller \in Users, cid \in CampaignIds \cup {UnknownId},
              uid \in Customers \cup {UnknownId} :
              ManualStart(p, caller, cid, uid)
        \/ ManualFlush(p)
        \/ ManualProgress(p)

SpecManual == InitLife /\ [][NextManual]_vars

\* Redemption Token Issuer, issuing only: campaign 1 is active or not, its
\* window ends at 0 or at MaxTime, it is single-use or not; user 1 holds an
\* assignment of it that is used (single-use only) or not and has an
\* expires_at of its own or none; any user asks for a token of assignment 1
\* or of an assignment that does not exist
InitOwner ==
    /\ now = 0
    /\ \E act \in BOOLEAN, single \in BOOLEAN, endDate \in {0, MaxTime} :
          campaigns =
              (1 :> Campaign(act, "static", single, 1, 0, endDate, {})
            @@ 2 :> Campaign(TRUE, "dynamic", FALSE, 1, 0, MaxTime, {}))
    /\ \E used \in BOOLEAN, expires \in {NoTime, 0} :
          /\ used => campaigns[1].is_single_use
          /\ assignments = {[CampaignAssignment(1, 1, 1, FALSE) EXCEPT
                                !.is_used = used, !.expires_at = expires]}
    /\ progress = {CampaignProgress(a.id, a) : a \in assignments}
    /\ logs = [k \in Users \X CampaignIds |-> 0]
    /\ usages = {}
    /\ reservations = [k \in Users \X Businesses |-> 0]
    /\ bookings = {}
    /\ comments = {}
    /\ nextAssignmentId = 2
    /\ nextProgressId = 2
    /\ nextToken = 1
    /\ InitHandlers

NextOwner ==
    \/ \E p \in Procs :
          \/ \E caller \in Users, aid \in {1, UnknownId} : UseRead(p, caller, aid)
          \/ UseDecide(p)
    \/ Tick

SpecOwner == InitOwner /\ [][NextOwner]_vars

\* the times reservations are booked for, around the cancel cutoff
ReservationTimes == {CancelCutoff, CancelCutoff + 1}

\* Scenario D: reservation 1 of user 2, in any status and booked for a time
\* around the cutoff, and a pending reservation 2 of user 1 that is 61
\* minutes away; any user cancels either or a reservation that does not exist
InitCancel ==
    /\ now = 0
    /\ campaigns =
          (1 :> Campaign(TRUE, "static", FALSE, 1, 0, MaxTime, {})
        @@ 2 :> Campaign(TRUE, "dynamic", FALSE, 1, 0, MaxTime, {}))
    /\ assignments = {}
    /\ progress = {}
    /\ logs = [k \in Users \X CampaignIds |-> 0]
    /\ usages = {}
    /\ reservations = [k \in Users \X Businesses |-> 0]
    /\ \E status \in Statuses, time \in ReservationTimes :
          bookings = {Reservation(1, 2, status, time),
                      Reservation(2, 1, "pending", CancelCutoff + 1)}
    /\ comments = {}
    /\ nextAssignmentId = 1
    /\ nextProgressId = 1
    /\ nextToken = 1
    /\ InitHandlers

NextCancel ==
    \/ \E p \in Procs :
          \/ \E caller \in Users, rid \in {1, 2, UnknownId} :
                CancelRead(p, caller, rid)
          \/ CancelDecide(p)
    \/ Tick

SpecCancel == InitCancel /\ [][NextCancel]_vars

\* a campaign row with its criteria_json set
WithCriteria(c, criteria) == [c EXCEPT !.criteria_json = criteria]

ScenarioBusinesses == {1, 2, 3}

\* Scenarios A and B: campaign 1 is dynamic and active with the criteria
\* {min_comments_after_assignment: 3}; user 1 has no assignment, is swept and
\* then comments on up to three businesses
InitScenario ==
    /\ now = 0
    /\ campaigns =
          (1 :> WithCriteria(Campaign(TRUE, "dynamic", FALSE, 1, 0, MaxTime, {}),
                             [k \in {"min_comments_after_assignment"} |-> 3])
        @@ 2 :> Campaign(FALSE, "static", FALSE, 1, 0, MaxTime, {}))
    /\ EmptyTables
    /\ started = MaxOps - ScenarioOps
    /\ swept = {}
    /\ pc = [p \in Procs |-> Idle]
    /\ req = [p \in Procs |-> NoRequest]
    /\ loc = [p \in Procs |-> NoLocals]
    /\ tx = [p \in Procs |-> EmptyTx]
    /\ result = [p \in Procs |-> NoResult]

NextScenario ==
    \E p \in Procs :
        \/ \E u \in Customers : SweepStart(p, u)
        \/ SweepLoop(p)
        \/ SweepFlush(p)
        \/ \E u \in Customers \cap swept, b \in ScenarioBusinesses :
              CommentStart(p, u, b)
        \/ RecordQuery(p)
        \/ RecordLoop(p)

SpecScenario == InitScenario /\ [][NextScenario]_vars

\* the criteria maps, ratings and counter values the evaluator is applied to
KeySets ==
    {{"min_rating"},
     {"min_comments_after_assignment", "min_rating", "min_age"},
     RecognizedKeys,
     RecognizedKeys \cup {"min_age"}}

Thresholds == {1, 2}
Ratings == {NoRating, 1, 2}
CounterValues == {0, 1, 2}

\* Rule Evaluator: campaign 1 carries a criteria map; user 1 has no
\* assignment of it, or one without a progress row (a row from before progress
\* tracking, the case update_campaign_progress creates the row for), or one
\* with a progress row whose counters have a value v; user 1 has v comments
\* and reservations since the assignment and maybe one more from before it;
\* user 2 has nothing
InitEval ==
    /\ now = 0
    /\ \E keys \in KeySets, t \in Thresholds :
          campaigns =
              (1 :> WithCriteria(Campaign(TRUE, "dynamic", FALSE, 1, 0, MaxTime, {}),
                                 [k \in keys |-> t])
            @@ 2 :> Campaign(TRUE, "static", FALSE, 1, 0, MaxTime, {}))
    /\ \E shape \in {"none", "untracked", "tracked"},
          v \in CounterValues, before \in {0, 1} :
          /\ shape # "tracked" => v = 0
          /\ assignments = IF shape = "none" THEN {}
                           ELSE {CampaignAssignment(1, 1, 1, TRUE)}
          /\ progress =
                IF shape = "tracked"
                THEN {[CampaignProgress(1, CampaignAssignment(1, 1, 1, TRUE))
                          EXCEPT !.comments_made = v, !.reservations_made = v,
                                 !.total_spend = v, !.last_updated = 0]}
                ELSE {}
          /\ comments = {<<1, b>> : b \in 1..(v + before)}
          /\ reservations = [k \in Users \X Businesses |->
                                IF k = <<1, 1>> THEN v + before ELSE 0]
    /\ bookings = {}
    /\ logs = [k \in Users \X CampaignIds |-> 0]
    /\ usages = {}
    /\ nextAssignmentId = 2
    /\ nextProgressId = 2
    /\ nextToken = 1
    /\ InitHandlers

NextEval ==
    \E p \in Procs :
        \E u \in Users, rating \in Ratings, c \in CampaignIds :
            Evaluate(p, u, rating, c)

SpecEval == InitEval /\ [][NextEval]_vars

\* ---- Assignment Manager: properties ---------------------------------------
\* C1: under every interleaving of manually_assign_campaign and
\* assign_eligible_campaigns handlers, each in its own session, the committed
\* state never holds two CampaignAssignment rows for one (user, campaign) pair.
NoDuplicateAssignment ==
    \A a \in assignments : \A b \in assignments :
        Pair(b, a.user_id, a.campaign_id) => a.id = b.id

\* two handlers raced for one pair: the insert of the second was rejected
\* and the pair has its row
RaceLoserRejected ==
    /\ \E p \in Procs : result[p].status = "integrity_error"
    /\ assignments # {}

\* C6: a sweep that starts after a sweep for the same user has committed
\* creates no assignment, no progress row and no log entry and ends normally,
\* and a swept user has exactly one assignment per active dynamic campaign.
SweepIdempotent ==
    /\ \A p \in Procs :
          (req[p].op = "sweep" /\ req[p].flag) => tx[p] = EmptyTx
    /\ \A p \in Procs :
          (result[p].op = "sweep" /\ result[p].flag)
              => (result[p].status = "ok" /\ result[p].created = 0)
    /\ \A u \in swept : \A c \in DynamicActive :
          Cardinality({a \in assignments : Pair(a, u, c)}) = 1

\* a second sweep has run to its commit while a campaign was active and
\* dynamic, after the first one created an assignment
SecondSweepDone ==
    /\ DynamicActive # {}
    /\ \E p \in Procs : result[p].op = "sweep" /\ result[p].flag
    /\ \E a \in assignments : a.assigned_by_rule_engine

\* ---- Redemption Token Issuer: properties ----------------------------------
StoredPair(aid, token, expires) ==
    \E a \in assignments :
        a.id = aid /\ a.qr_token = token /\ a.qr_expires_at = expires

\* C2: every token a use_campaign caller has received and whose validity
\* window is still open is the pair stored on the assignment, so concurrent
\* callers never hold two different valid tokens of one assignment.
OneValidTokenPerAssignment ==
    \A p \in Procs :
        (result[p].op = "use" /\ result[p].status = "ok"
            /\ now < result[p].expires)
        => StoredPair(result[p].assignment, result[p].token, result[p].expires)

Redeemable(a, b) ==
    /\ now <= a.qr_expires_at
    /\ isBusinessAllowed(a.campaign_id, b)

ConsumeStep(p, a) ==
    /\ pc[p] = "c_run"
    /\ pc'[p] = Idle
    /\ a.qr_token # NoToken
    /\ req[p].token = a.qr_token

UsagesOf(a) == {x \in usages : x.assignment_id = a.id}

\* C3: a single-use assignment never has more than one CampaignUsage row and
\* is used exactly when it has one; a consumeToken attempt on it succeeds when
\* it is unused, unexpired and at an allowed business, and every attempt after
\* the successful one observes AlreadyUsed or TokenExpired and records nothing.
SingleRedemption ==
    /\ [](\A a \in assignments :
            campaigns[a.campaign_id].is_single_use
            => /\ Cardinality(UsagesOf(a)) <= 1
               /\ a.is_used <=> (Cardinality(UsagesOf(a)) = 1))
    /\ [][\A p \in Procs : \A a \in assignments :
            (ConsumeStep(p, a) /\ campaigns[a.campaign_id].is_single_use)
            => IF a.is_used
               THEN /\ result'[p].status \in {"already_used", "token_expired"}
                    /\ usages' = usages
               ELSE Redeemable(a, req[p].business)
                        => result'[p].status = "ok"
         ]_vars

\* one attempt succeeded and another, on the same token, observed AlreadyUsed
SecondAttemptRefused ==
    \E p \in Procs : \E q \in Procs :
        /\ result[p].op = "consume" /\ result[p].status = "ok"
        /\ result[q].op = "consume" /\ result[q].status = "already_used"
        /\ result[q].token = result[p].token

TokenHeld(row) == row.qr_token # NoToken /\ row.qr_expires_at > now

Usable(row) ==
    /\ row # NoRow
    /\ ~(campaigns[row.campaign_id].is_single_use /\ row.is_used)

\* C4: a use_campaign call that finds a stored token whose expiry is still in
\* the future returns exactly that token and expiry, mints nothing and leaves
\* every assignment as it is.
TokenReuse ==
    [][\A p \in Procs :
         (pc[p] = "u_decide" /\ pc'[p] = Idle /\ Usable(loc[p].row)
             /\ TokenHeld(loc[p].row))
         => /\ result'[p].status = "ok"
            /\ result'[p].token = loc[p].row.qr_token
            /\ result'[p].expires = loc[p].row.qr_expires_at
            /\ assignments' = assignments
            /\ nextToken' = nextToken
      ]_vars

\* two calls returned the same token: the second one reused the stored token
SameTokenTwice ==
    \E p \in Procs : \E q \in Procs :
        /\ p # q
        /\ result[p].op = "use" /\ result[p].status = "ok"
        /\ result[q].op = "use" /\ result[q].status = "ok"
        /\ result[p].token = result[q].token
        /\ result[p].expires = result[q].expires

\* C5: once a single-use assignment is used, its row never changes again,
\* every later use_campaign on it fails with AlreadyUsed and every later
\* consumeToken on it fails with AlreadyUsed.
UsedIsTerminal ==
    [][\A a \in assignments :
         (campaigns[a.campaign_id].is_single_use /\ a.is_used)
         => /\ a \in assignments'
            /\ \A p \in Procs :
                  (pc[p] = "u_decide" /\ pc'[p] = Idle
                      /\ loc[p].row.id = a.id /\ loc[p].row.is_used)
                  => result'[p].status = "already_used"
            /\ \A p \in Procs :
                  ConsumeStep(p, a) => result'[p].status = "already_used"
      ]_vars

Mintable(row) ==
    /\ row # NoRow
    /\ ~row.is_used
    /\ (row.qr_token = NoToken \/ row.qr_expires_at < now)

\* C12: a use_campaign call on an owned, unused assignment that has no token
\* or whose expiry has passed returns a token that differs from the previous
\* one and from every stored one, with expiry now + usage_duration_minutes,
\* and the assignment row holds exactly that pair afterwards.
FreshTokenMinted ==
    [][\A p \in Procs :
         (pc[p] = "u_decide" /\ pc'[p] = Idle /\ Mintable(loc[p].row))
         => /\ result'[p].status = "ok"
            /\ result'[p].token # NoToken
            /\ result'[p].token # loc[p].row.qr_token
            /\ \A a \in assignments : a.qr_token # result'[p].token
            /\ result'[p].expires =
                  now + campaigns[loc[p].row.campaign_id].usage_duration_minutes
            /\ \E a \in assignments' :
                  /\ a.id = loc[p].row.id
                  /\ a.qr_token = result'[p].token
                  /\ a.qr_expires_at = result'[p].expires
      ]_vars

\* a token was minted, expired, and a later call minted the next one
ReissuedAfterExpiry ==
    \E p \in Procs : \E q \in Procs :
        /\ result[q].op = "use" /\ result[q].created = 1
        /\ result[p].op = "use" /\ result[p].created = 1
        /\ result[p].token > result[q].token
        /\ result[p].expires
              - campaigns[1].usage_duration_minutes > result[q].expires

\* C13: a consumeToken call made after the token's qr_expires_at fails with
\* TokenExpired whether or not the assignment is used, records no
\* CampaignUsage row and leaves every assignment, is_used included, as it is.
ExpiredBeforeUsed ==
    [][\A p \in Procs : \A a \in assignments :
         (ConsumeStep(p, a) /\ now > a.qr_expires_at)
         => /\ result'[p].status = "token_expired"
            /\ usages' = usages
            /\ assignments' = assignments
      ]_vars

\* a consumed single-use assignment was presented again after the expiry of
\* its token and the call observed TokenExpired
ExpiredOnUsed ==
    \E p \in Procs : \E a \in assignments :
        /\ result[p].op = "consume" /\ result[p].status = "token_expired"
        /\ result[p].token = a.qr_token
        /\ a.is_used

\* ---- Progress Tracker: properties -----------------------------------------
AllIdle == \A p \in Procs : pc[p] = Idle

CommentsOf(u) == {b \in Businesses : <<u, b>> \in comments}

\* C7: when every handler has committed, comments_made of the progress row of
\* an assignment that was eligible throughout (campaign 1: active, its window
\* the whole run) has grown by the number of comment events of its user.
NoLostIncrement ==
    AllIdle =>
        \A r \in progress :
            r.campaign_id = 1
            => r.comments_made = Cardinality(CommentsOf(r.user_id))

Touched(p) == {r \in progress : \E w \in tx[p].writes : w[1] = r.id}

After(r) == CHOOSE n \in progress' : n.id = r.id

\* C8: the commit of a reservation event raises businesses_visited of every
\* progress row it touched by exactly 1 when the user had no earlier
\* reservation at the business, and leaves it as it is otherwise, while
\* reservations_made rises.
FirstVisitCounted ==
    [][\A p \in Procs :
         (pc[p] = "r_loop" /\ pc'[p] = Idle /\ req[p].op = "reservation")
         => \A r \in Touched(p) :
              IF req[p].flag
              THEN After(r).businesses_visited = r.businesses_visited + 1
              ELSE /\ After(r).businesses_visited = r.businesses_visited
                   /\ After(r).reservations_made > r.reservations_made
      ]_vars

DistinctBusinesses(u) ==
    {b \in Businesses : reservations[<<u, b>>] > 0}

\* C9: businesses_visited of every progress row is at most the number of
\* distinct businesses its user has a reservation at, and no step lowers it.
VisitedBounded ==
    /\ [](\A r \in progress :
            r.businesses_visited <= Cardinality(DistinctBusinesses(r.user_id)))
    /\ [][\A r \in progress :
            After(r).businesses_visited >= r.businesses_visited]_vars

\* reservation events have been recorded twice on one progress row
TwoReservationsRecorded ==
    \E r \in progress :
        /\ r.reservations_made >= 2
        /\ DistinctBusinesses(r.user_id) # {}

\* C10: in every committed state every CampaignAssignment has exactly one
\* CampaignProgress row, and update_campaign_progress never takes its
\* creation branch.
OneProgressPerAssignment ==
    /\ \A a \in assignments :
          Cardinality({r \in progress : r.assignment_id = a.id}) = 1
    /\ \A p \in Procs :
          req[p].op \in {"comment", "reservation"} => tx[p].prog = {}

\* an event was recorded on the progress row of an assignment that a handler
\* created
EventOnCreatedAssignment ==
    \E r \in progress : r.comments_made > 0

\* C14: no step lowers comments_made, reservations_made, businesses_visited
\* or total_spend of any progress row, whatever event is recorded.
CountersMonotone ==
    [][\A r \in progress :
         /\ After(r).comments_made >= r.comments_made
         /\ After(r).reservations_made >= r.reservations_made
         /\ After(r).businesses_visited >= r.businesses_visited
         /\ After(r).total_spend >= r.total_spend
      ]_vars

Eligible(r, u) == \E a \in active_assignments(u) : a.id = r.assignment_id

Advanced(p, r) ==
    /\ After(r) = ApplyWrites(r, tx[p].writes)
    /\ \E w \in tx[p].writes : w[1] = r.id /\ w[2] # "last_updated"

\* C15: the committed progress rows change only in the commit step of a
\* successful update_campaign_progress call, which writes the update of every
\* eligible row of the user together and leaves every other row as it is; a
\* call that fails inside the loop commits none of its updates.
AllOrNothing ==
    [][progress' # progress =>
         \E p \in Procs :
             /\ pc[p] = "r_loop" /\ pc'[p] = Idle
             /\ result'[p].status = "ok"
             /\ \A r \in progress :
                   IF Eligible(r, req[p].user) THEN Advanced(p, r)
                   ELSE After(r) = r
      ]_vars

\* a call failed after it had changed some but not all of the eligible rows
\* of its user in the session
PartialFailureRolledBack ==
    \E p \in Procs :
        /\ result[p].status = "error"
        /\ result[p].created >= 1
        /\ result[p].created < Cardinality(active_assignments(result[p].user))

\* C16: the commit of a comment event raises comments_made by exactly 1 on
\* the progress row of every assignment of the user that is unused and whose
\* campaign is active with now inside its window, and leaves the counters of
\* every other progress row as they are.
CommentFrame ==
    [][\A p \in Procs :
         (pc[p] = "r_loop" /\ pc'[p] = Idle /\ req[p].op = "comment"
             /\ result'[p].status = "ok")
         => \A r \in progress :
              IF Eligible(r, req[p].user)
              THEN After(r).comments_made = r.comments_made + 1
              ELSE /\ After(r).comments_made = r.comments_made
                   /\ After(r).reservations_made = r.reservations_made
                   /\ After(r).businesses_visited = r.businesses_visited
                   /\ After(r).total_spend = r.total_spend
      ]_vars

\* ---- Rule Evaluator: properties -------------------------------------------
ZeroCounters(r) ==
    /\ r.comments_made = 0
    /\ r.reservations_made = 0
    /\ r.businesses_visited = 0
    /\ r.total_spend = 0

ScenarioKey == "min_comments_after_assignment"

\* C11: once user 1 has been swept, the assignment of campaign 1 and its
\* progress row exist; before any comment all counters are 0 and the evaluator
\* returns {min_comments_after_assignment: false}; when three comments have
\* been posted and recorded it returns {min_comments_after_assignment: true}.
ScenarioAB ==
    1 \in swept =>
        /\ \E a \in assignments :
              /\ Pair(a, 1, 1)
              /\ \E r \in progress : r.assignment_id = a.id
        /\ comments = {} =>
              /\ \A r \in progress : ZeroCounters(r)
              /\ evaluate_campaign_rules(1, NoRating, 1)
                     = [k \in {ScenarioKey} |-> FALSE]
        /\ (AllIdle /\ comment_count(1) = 3) =>
              evaluate_campaign_rules(1, NoRating, 1)
                  = [k \in {ScenarioKey} |-> TRUE]

Evaluated(p) == result[p].op = "evaluate"

HasAssignment(u, c) == \E a \in assignments : Pair(a, u, c)

HasProgress(u, c) ==
    \E a \in assignments :
        Pair(a, u, c) /\ \E r \in progress : r.assignment_id = a.id

CriteriaOf(c) == campaigns[c].criteria_json

\* C17: when the user has no assignment of the campaign, or has one without
\* a progress row, the evaluator returns false for every key of the
\* campaign's criteria.
UnassignedAllFalse ==
    \A p \in Procs :
        (Evaluated(p) /\ ~HasProgress(result[p].user, result[p].campaign))
        => /\ DOMAIN result[p].results = DOMAIN CriteriaOf(result[p].campaign)
           /\ \A k \in DOMAIN result[p].results : result[p].results[k] = FALSE

\* the evaluator was applied to an assignment without progress row, for a
\* user whose rating reaches the min_rating threshold
UntrackedEvaluated ==
    \E p \in Procs :
        /\ Evaluated(p)
        /\ HasAssignment(result[p].user, result[p].campaign)
        /\ ~HasProgress(result[p].user, result[p].campaign)
        /\ "min_rating" \in DOMAIN result[p].results
        /\ result[p].rating = 2

\* C18: the mapping the evaluator returns has no entry for a key outside the
\* recognized set, for every user, campaign and storage state.
OnlyRecognizedReported ==
    \A p \in Procs :
        Evaluated(p) => DOMAIN result[p].results \subseteq RecognizedKeys

\* C19: the min_rating entry is determined by the rating and the threshold
\* alone: it is present whenever the criteria have the key and it is true
\* exactly when the rating is not null and at least the threshold, whatever
\* assignment and progress rows exist.
RatingIndependent ==
    \A p \in Procs :
        (Evaluated(p) /\ "min_rating" \in DOMAIN CriteriaOf(result[p].campaign))
        => /\ "min_rating" \in DOMAIN result[p].results
           /\ result[p].results["min_rating"]
                 <=> (result[p].rating # NoRating
                        /\ result[p].rating
                               >= CriteriaOf(result[p].campaign)["min_rating"])

\* C20: a call of the evaluator leaves the assignments, the progress rows,
\* the evaluation logs and every other table as they were.
EvaluateWritesNothing ==
    [][\A p \in Procs :
         (pc[p] = Idle /\ result'[p] # result[p] /\ result'[p].op = "evaluate")
         => /\ assignments' = assignments
            /\ progress' = progress
            /\ logs' = logs
            /\ UNCHANGED <<campaigns, usages, reservations, bookings, comments>>
      ]_vars

\* the evaluator returned entries computed from a progress row
TrackedEvaluated ==
    \E p \in Procs :
        /\ Evaluated(p)
        /\ HasProgress(result[p].user, result[p].campaign)
        /\ \E k \in DOMAIN result[p].results : result[p].results[k]

\* ---- Assignment Manager: further properties -------------------------------
NewAssignments == assignments' \ assignments

NewProgress == progress' \ progress

\* C21: the committed assignments and progress rows change only in the
\* commit of a successful manually_assign_campaign, which adds exactly one
\* assignment (for the requested pair, assigned_by_rule_engine false) and
\* exactly one progress row of it with zero counters and keeps every existing
\* row; a call that fails creates nothing, and it fails with the campaign,
\* user or duplicate outcome only when the campaign or user is missing or the
\* pair is assigned.
ManualAtomic ==
    /\ [](\A p \in Procs :
            result[p].op = "manual_assign" =>
               /\ result[p].status = "campaign_not_found"
                     => result[p].campaign \notin CampaignIds
               /\ result[p].status = "user_not_found"
                     => result[p].user \notin Users
               /\ result[p].status = "duplicate_assignment"
                     => HasAssignment(result[p].user, result[p].campaign))
    /\ [][\A p \in Procs :
            (pc[p] = "m_progress" /\ pc'[p] = Idle)
            => result'[p].status = "ok" /\ NewAssignments # {}]_vars
    /\ [][(assignments' # assignments \/ progress' # progress) =>
            \E p \in Procs :
               /\ pc[p] = "m_progress" /\ result'[p].status = "ok"
               /\ assignments \subseteq assignments'
               /\ progress \subseteq progress'
               /\ \E a \in NewAssignments :
                     /\ NewAssignments = {a}
                     /\ Pair(a, req[p].target, req[p].campaign)
                     /\ ~a.assigned_by_rule_engine
                     /\ \E r \in NewProgress :
                           /\ NewProgress = {r}
                           /\ r.assignment_id = a.id
                           /\ ZeroCounters(r)
         ]_vars

\* one call assigned a pair and another call for the same pair was refused
\* as a duplicate
ManualThenDuplicate ==
    \E p \in Procs : \E q \in Procs :
        /\ result[p].op = "manual_assign" /\ result[p].status = "ok"
        /\ result[q].op = "manual_assign"
        /\ result[q].status = "duplicate_assignment"
        /\ Cardinality(assignments) = 1 /\ Cardinality(progress) = 1

\* C22: a handler whose insert is rejected by the uniqueness constraint ends
\* with the existing-assignment outcome, not an error: a manual assignment
\* reports the duplicate, and a sweep goes on and commits the assignments it
\* flushed for the user's other campaigns.
RaceLoserBenign ==
    [][\A p \in Procs :
         /\ (pc[p] = "m_flush" /\ pc'[p] = Idle)
               => result'[p].status = "duplicate_assignment"
         /\ (pc[p] = "s_flush" /\ UniqueViolation(req[p].target, Head(loc[p].todo)))
               => /\ pc'[p] \in {"s_flush", "s_loop"}
                  /\ tx'[p].asg = tx[p].asg
      ]_vars

\* what a finished sweep for user u has done
SweepPost(u) ==
    /\ assignments \subseteq assignments'
    /\ progress \subseteq progress'
    /\ \A a \in NewAssignments :
          /\ a.user_id = u
          /\ a.campaign_id \in DynamicActive
          /\ a.assigned_by_rule_engine
          /\ ~HasAssignment(u, a.campaign_id)
          /\ \E r \in NewProgress :
                /\ {x \in NewProgress : x.assignment_id = a.id} = {r}
                /\ ZeroCounters(r)
    /\ \A r \in NewProgress : \E a \in NewAssignments : r.assignment_id = a.id
    /\ logs' = [k \in DOMAIN logs |->
                  IF \E a \in NewAssignments : k = <<u, a.campaign_id>>
                  THEN logs[k] + 1 ELSE logs[k]]
    /\ \A c \in DynamicActive :
          Cardinality({a \in assignments' : Pair(a, u, c)}) = 1

\* C23: when assign_eligible_campaigns ends, every active dynamic campaign
\* that had no assignment of the user has exactly one, created with
\* assigned_by_rule_engine true, one zero-counter progress row and one
\* evaluation log entry; nothing was created for a static or inactive
\* campaign and every assignment that existed is as it was.
SweepCreates ==
    [][\A p \in Procs :
         (req[p].op = "sweep" /\ pc[p] \in {"s_loop", "s_flush"}
             /\ pc'[p] = Idle)
         => SweepPost(req[p].target)
      ]_vars

\* ---- Redemption Token Issuer: further properties ---------------------------
Owned(aid, u) == \E a \in assignments : a.id = aid /\ a.user_id = u

\* C24: a use_campaign call for an assignment id that does not exist or
\* belongs to another user ends with AssignmentNotFound and changes no
\* assignment, and every call that returned a token was made by the owner of
\* the assignment.
OwnerOnly ==
    /\ [](\A p \in Procs :
            (result[p].op = "use" /\ result[p].status = "ok")
            => Owned(result[p].assignment, result[p].user))
    /\ [][\A p \in Procs :
            (pc[p] = "u_decide" /\ pc'[p] = Idle
                /\ ~Owned(req[p].assignment, req[p].user))
            => /\ result'[p].status = "assignment_not_found"
               /\ assignments' = assignments
         ]_vars

\* a user asked for the token of another user's assignment, which holds a
\* token, and was told the assignment does not exist
ForeignRefused ==
    \E p \in Procs : \E a \in assignments :
        /\ result[p].op = "use"
        /\ result[p].status = "assignment_not_found"
        /\ a.id = result[p].assignment
        /\ a.user_id # result[p].user
        /\ a.qr_token # NoToken

\* C28: a use_campaign call on an owned assignment that is not a consumed
\* single-use one returns a token whatever the campaign's is_active flag, its
\* validity window and the assignment's expires_at are.
AlwaysIssues ==
    [][\A p \in Procs :
         (pc[p] = "u_decide" /\ pc'[p] = Idle /\ Usable(loc[p].row))
         => /\ result'[p].status = "ok"
            /\ result'[p].token # NoToken
      ]_vars

\* a token was returned for an assignment whose campaign is inactive, whose
\* window has ended and whose own expires_at has passed
IssuedWhenInactive ==
    \E p \in Procs : \E a \in assignments :
        /\ result[p].op = "use" /\ result[p].status = "ok"
        /\ a.id = result[p].assignment
        /\ ~campaigns[a.campaign_id].is_active
        /\ campaigns[a.campaign_id].end_date < now
        /\ a.expires_at # NoTime /\ a.expires_at < now

After2(a) == CHOOSE n \in assignments' : n.id = a.id

\* C26: only assignments of single-use campaigns are ever used and each used
\* one has a CampaignUsage row; is_used becomes true only in the step of a
\* successful consumeToken on the assignment's token; and an assignment that
\* holds a token holds one, with an expiry, ever after.
UsedOnlyByConsume ==
    /\ [](\A a \in assignments :
            a.is_used => /\ campaigns[a.campaign_id].is_single_use
                         /\ UsagesOf(a) # {})
    /\ [][\A a \in assignments :
            /\ (After2(a).is_used /\ ~a.is_used)
                  => \E p \in Procs :
                        /\ ConsumeStep(p, a)
                        /\ result'[p].status = "ok"
            /\ a.qr_token # NoToken
                  => /\ After2(a).qr_token # NoToken
                     /\ After2(a).qr_expires_at # NoTime
         ]_vars

\* a token was minted again after the first one, and the assignment was
\* consumed
ReissuedAndUsed ==
    \E a \in assignments :
        /\ a.is_used
        /\ a.qr_token # NoToken
        /\ nextToken > 2

SameRow(a) == \E n \in assignments' : n.id = a.id /\ n.qr_token = a.qr_token

\* C27: use_campaign never replaces a stored token while consumeToken would
\* still accept it (now <= qr_expires_at); at now = qr_expires_at the stored
\* token is returned and stays.
NoReplaceWhileAccepted ==
    [][\A a \in assignments :
         (a.qr_token # NoToken /\ now <= a.qr_expires_at) => SameRow(a)
      ]_vars

\* ---- Reservations: properties ----------------------------------------------
\* the committed row of reservation rid
Booking(rid) == CHOOSE b \in bookings : b.id = rid

\* handler p ends a cancel call in this step
CancelEnds(p) == pc[p] = "x_decide" /\ pc'[p] = Idle

CancelOnly ==
    [][/\ {b.id : b \in bookings'} = {b.id : b \in bookings}
       /\ \A b \in bookings :
             \E n \in bookings' :
                /\ n.id = b.id
                /\ [n EXCEPT !.status = b.status] = b
                /\ n.status # b.status
                      => /\ n.status = "cancelled"
                         /\ b.status \in {"pending", "confirmed"}
                         /\ \E p \in Procs :
                               /\ CancelEnds(p)
                               /\ req[p].reservation = b.id
                               /\ req[p].user = b.user_id
                               /\ result'[p].status = "ok"
                /\ b.status = "cancelled" => n.status = "cancelled"
       /\ \A p \in Procs :
             /\ (CancelEnds(p) /\ result'[p].status # "ok")
                   => bookings' = bookings
             /\ (CancelEnds(p) /\ loc[p].row # NoRow
                    /\ loc[p].row.status = "cancelled")
                   => result'[p].status = "already_cancelled"
             /\ (pc[p] = Idle /\ pc'[p] = "x_decide")
                   => \A b \in bookings :
                         (b.id = req'[p].reservation
                             /\ b.user_id = req'[p].user
                             /\ b.status = "cancelled")
                            => loc'[p].row = b
      ]_vars

\* a reservation was cancelled by its owner, a later cancel of it was refused
\* as already cancelled
CancelledThenRefused ==
    \E p, q \in Procs :
        /\ p # q
        /\ result[p].op = "cancel" /\ result[p].status = "ok"
        /\ result[q].op = "cancel" /\ result[q].status = "already_cancelled"
        /\ result[q].reservation = result[p].reservation
        /\ Booking(result[p].reservation).status = "cancelled"

\* ---- Progress Tracker: events that are not counted -------------------------
\* the call of handler p is one the tracker has no counter for
Uncounted(r) ==
    \/ r.op \in OtherActions
    \/ r.op = "purchase" /\ r.amount = NoAmount

SameCounters(r, n) ==
    /\ n.comments_made = r.comments_made
    /\ n.reservations_made = r.reservations_made
    /\ n.businesses_visited = r.businesses_visited
    /\ n.total_spend = r.total_spend

\* C29: the commit of a call with an action type other than comment,
\* reservation and purchase, or of a purchase without amount, succeeds,
\* leaves the four counters of every progress row as they were and sets
\* last_updated of the progress row of every eligible assignment of the user
UncountedTouchesOnlyTime ==
    [][\A p \in Procs :
          (pc[p] = "r_loop" /\ pc'[p] = Idle /\ Uncounted(req[p]))
             => /\ result'[p].status = "ok"
                /\ \A r \in progress :
                      \E n \in progress' : n.id = r.id /\ SameCounters(r, n)
                /\ \A a \in active_assignments(req[p].user) :
                      \E n \in progress' :
                         n.assignment_id = a.id /\ n.last_updated = now
      ]_vars

\* a call with an unknown action type and a purchase without amount have both
\* committed and the user's progress carries their time and no count
UncountedCommitted ==
    \E p, q \in Procs :
        /\ result[p].op \in OtherActions /\ result[p].status = "ok"
        /\ result[q].op = "purchase" /\ result[q].status = "ok"
        /\ \E r \in progress :
              /\ r.user_id = result[p].user
              /\ r.last_updated = now
              /\ r.comments_made = 0 /\ r.total_spend = 0

====
